---- MODULE Spec2Model ----
(***************************************************************************)
(* A model of psy.py: a one-membrane P-system simulator.  A state of the   *)
(* cell is a Counter of the symbols a-e; a rule is a pair of Counters      *)
(* (outgoing, incoming).  run() drains every rule in list order, merges    *)
(* the produced symbols at the end of the step and stops at the first      *)
(* step in which no rule fired.                                            *)
(*                                                                         *)
(* A Counter is modelled as a total function from the five symbols to its  *)
(* counts, an absent key being the count 0.  The in-place operators of the *)
(* code strip the keys whose count is not positive, and a Counter built    *)
(* from a list has positive counts only, so no Counter of the program ever *)
(* holds a key with count 0 and equality of Counters is equality of these  *)
(* functions.  The order in which a Counter is rendered as text (its key   *)
(* insertion order) is not modelled: a printed Counter is the Counter.     *)
(***************************************************************************)
EXTENDS Integers, Sequences, FiniteSets, TLC

\* ------------------------------------------------------------------ bounds
\* The longest rule list run() is started with.
MaxRules == 2
\* The largest number of symbols in the cell run() is started with.
MaxInit == 4
\* The number of steps of run() the model follows.
MaxSteps == 3
\* The largest total number of lines of the rule files main() is given.
MaxLines == 2
\* The largest number of rule files main() is given.
MaxFiles == 2
\* The longest text main() finds on its input stream.
MaxInput == 2
\* The largest number of symbols in an operand of the Counter operators.
MaxOperand == 2
\* The number of steps the model follows a run with loop detection for.
MaxLoopSteps == 12

\* --------------------------------------------------------------- SYMBOLS
SYMBOLS == <<"a", "b", "c", "d", "e">>

\* SYMBOLS.upper()
SYMBOLS_upper == <<"A", "B", "C", "D", "E">>

Sym == {SYMBOLS[i] : i \in DOMAIN SYMBOLS}

\* A variant of Lower that leaves the case as it is.
LowerBroken(c) == c

\* symbol.lower(), for the characters the code applies it to (A-E).
Lower(c) ==
    IF \E i \in DOMAIN SYMBOLS_upper : SYMBOLS_upper[i] = c
    THEN SYMBOLS[CHOOSE i \in DOMAIN SYMBOLS_upper : SYMBOLS_upper[i] = c]
    ELSE c

\* ------------------------------------------------------ Counter operators
\* Counter()
EmptyCounter == [s \in Sym |-> 0]

\* Counter(list): the number of occurrences of each symbol in the list
\* (every element of a list the code counts is one of the five symbols).
CounterOf(list) ==
    [s \in Sym |-> Cardinality({i \in DOMAIN list : list[i] = s})]

\* A variant of CounterSub that keeps the counts below zero.
CounterSubSigned(a, b) == [s \in Sym |-> a[s] - b[s]]

\* a - b: the counts are subtracted and only the positive ones are kept.
CounterSub(a, b) ==
    [s \in Sym |-> IF a[s] - b[s] > 0 THEN a[s] - b[s] ELSE 0]

\* a + b: the counts are added and only the positive ones are kept.
CounterAdd(a, b) ==
    [s \in Sym |-> IF a[s] + b[s] > 0 THEN a[s] + b[s] ELSE 0]

\* A variant of Contains that looks for the symbols of b in a, whatever
\* their counts.
ContainsSymbols(a, b) == \A s \in Sym : b[s] > 0 => a[s] > 0

\* The containment test of run(): a - b + b == a.
Contains(a, b) == CounterAdd(CounterSub(a, b), b) = a

\* bool(counter): a Counter is true when it has a key.
NonEmpty(c) == \E s \in Sym : c[s] > 0

\* The number of symbols a Counter holds, multiplicities counted.
Size(c) ==
    c[SYMBOLS[1]] + c[SYMBOLS[2]] + c[SYMBOLS[3]] + c[SYMBOLS[4]]
    + c[SYMBOLS[5]]

\* ------------------------------------------------------------ rule files
\* The characters str.split() splits at.
Whitespace == {" ", "\t", "\n"}

\* line.split(): the maximal runs of characters that are not whitespace, in
\* order; word is the run being read at position i.
RECURSIVE SplitFrom(_, _, _)
SplitFrom(line, i, word) ==
    LET done == IF word = <<>> THEN <<>> ELSE <<word>>
    IN  IF i > Len(line) THEN done
        ELSE IF line[i] \in Whitespace
             THEN done \o SplitFrom(line, i + 1, <<>>)
             ELSE SplitFrom(line, i + 1, Append(word, line[i]))

Split(line) == SplitFrom(line, 1, <<>>)

\* symbol in SYMBOLS
InSymbols(c) == c \in Sym

\* symbol in SYMBOLS.upper()
InSymbolsUpper(c) == \E i \in DOMAIN SYMBOLS_upper : SYMBOLS_upper[i] = c

\* Counter([symbol for symbol in word if symbol in SYMBOLS])
Outgoing(word) == CounterOf(SelectSeq(word, InSymbols))

\* Counter([symbol.lower() for symbol in word if symbol in SYMBOLS.upper()])
\* (a key that is none of the five symbols is dropped by CounterOf: the
\* code never builds one).
Incoming(word) ==
    LET up == SelectSeq(word, InSymbolsUpper)
    IN  CounterOf([i \in DOMAIN up |-> Lower(up[i])])

\* The pair (outgoing, incoming) a word of a rule file stands for.
RuleOf(word) == [outgoing |-> Outgoing(word), incoming |-> Incoming(word)]

\* if line and not line.startswith("#")
IsRuleLine(line) == Len(line) > 0 /\ line[1] # "#"

\* for line in open(fname) if ... for word in line.split(): the rules of the
\* lines of one file, in line order then word order.
RECURSIVE RulesOfLines(_)
RulesOfLines(lines) ==
    IF lines = <<>> THEN <<>>
    ELSE LET line == Head(lines)
             words == IF IsRuleLine(line) THEN Split(line) ELSE <<>>
         IN  [i \in DOMAIN words |-> RuleOf(words[i])]
             \o RulesOfLines(Tail(lines))

\* for fname in input_rules ...: the rules of all the files, in file order.
RECURSIVE LoadRules(_)
LoadRules(files) ==
    IF files = <<>> THEN <<>>
    ELSE RulesOfLines(Head(files)) \o LoadRules(Tail(files))

\* A variant of InitialState that counts a letter in either case.
InitialStateFolded(text) ==
    CounterOf([i \in DOMAIN text |-> Lower(text[i])])

\* Counter([symbol for symbol in input_state.read() if symbol in SYMBOLS])
InitialState(text) == CounterOf(SelectSeq(text, InSymbols))

\* ------------------------------------------------------------------ state
VARIABLES
    input_rules,      \* main: the rule files, each a sequence of lines
    input_state,      \* main: the text not yet read from the input stream
    input_read,       \* the texts read from the input stream so far
    mpc,              \* the position of main and of the __main__ block
    exit_code,        \* <<>> while the program runs, then <<status>>
    stdout,           \* everything printed so far
    exc,              \* <<>>, or <<e>> once the exception e was raised
    opts,             \* the options: detect_loops, verbose
    rules,            \* the rule list, pairs (outgoing, incoming)
    state,            \* the contents of the cell
    to_add,           \* run: the symbols produced in the current step
    end,              \* run: no rule fired yet in the current step
    ri,               \* run: the position of the for loop in rules
    pc,               \* run: the position of run
    previous_states,  \* run: the states recorded by the loop detection
    ret,              \* <<>>, or <<value>> once run returned value
    steps,            \* the number of steps of run started so far
    step_start,       \* the cell at the start of the current step
    fired,            \* fired[i]: applications of rule i in the current step
    trace,            \* the cells the steps of the current run started from
    earlier,          \* <<>>, or <<r>>: how an earlier, equal call of run went
    opA, opB, opR     \* two Counters and the result of an operator on them

ioVars == <<input_rules, input_state, input_read, mpc, exit_code>>
runVars == <<opts, rules, state, to_add, end, ri, pc, previous_states, ret,
             steps, step_start, fired>>
opVars == <<opA, opB, opR>>
histVars == <<trace, earlier>>
vars == <<ioVars, stdout, exc, runVars, opVars, histVars>>

\* ----------------------------------------------------------------- inputs
\* The symbols the cell and the rules are made of at the start of a run.
InSyms == {SYMBOLS[1], SYMBOLS[2]}

\* The Counters with at most n symbols in all, the symbols drawn from syms.
Counters(syms, n) ==
    {c \in [Sym -> 0..n] : Size(c) <= n /\ \A s \in Sym \ syms : c[s] = 0}

\* The words the rules of a run are loaded from:
\* aa->b, b->a, a->aa, a->a, ab->nothing, aa->a.
RuleWords ==
    { <<"a", "a", "B">>, <<"b", "A">>, <<"a", "A", "A">>, <<"a", "A">>,
      <<"a", "b">>, <<"a", "a", "A">> }

RuleLists ==
    UNION {[1..n -> {RuleOf(w) : w \in RuleWords}] : n \in 0..MaxRules}

OptionSets == [detect_loops : BOOLEAN, verbose : BOOLEAN]

\* --------------------------------------------------------------------- run
\* print(x)
Emit(out, verbose, x) == IF verbose THEN Append(out, x) ELSE out

\* A variant of RunEntry with a list of recorded states that outlives the
\* call.
RunEntrySharedHistory ==
    /\ pc = "entry"
    /\ previous_states' =
           IF opts.detect_loops THEN Append(previous_states, state) ELSE <<>>
    /\ pc' = "loop"
    /\ UNCHANGED <<ioVars, stdout, exc, opts, rules, state, to_add, end, ri,
                   ret, steps, step_start, fired, opVars, histVars>>

\* lines 39-41: def run(rules, state, opts)
RunEntry ==
    /\ pc = "entry"
    /\ previous_states' = IF opts.detect_loops THEN <<state>> ELSE <<>>
    /\ pc' = "loop"
    /\ UNCHANGED <<ioVars, stdout, exc, opts, rules, state, to_add, end, ri,
                   ret, steps, step_start, fired, opVars, histVars>>

\* lines 42-46: the start of one iteration of "while True"
BeginStep ==
    /\ pc = "loop"
    /\ steps < MaxSteps
    /\ stdout' = Emit(stdout, opts.verbose, [kind |-> "state", value |-> state])
    /\ to_add' = EmptyCounter
    /\ end' = TRUE
    /\ ri' = 1
    /\ pc' = "rule"
    /\ steps' = steps + 1
    /\ step_start' = state
    /\ fired' = [i \in DOMAIN rules |-> 0]
    /\ trace' = Append(trace, state)
    /\ UNCHANGED <<ioVars, exc, opts, rules, state, previous_states, ret,
                   opVars, earlier>>

\* A variant of ApplyRule without the inner "while True": a rule is applied
\* once and the for loop moves on.
ApplyRuleOnce ==
    /\ pc = "rule"
    /\ ri <= Len(rules)
    /\ Contains(state, rules[ri].outgoing)
    /\ state' = CounterSub(state, rules[ri].outgoing)
    /\ to_add' = CounterAdd(to_add, rules[ri].incoming)
    /\ end' = FALSE
    /\ stdout' = Emit(stdout, opts.verbose,
                      [kind |-> "rule", outgoing |-> rules[ri].outgoing,
                       incoming |-> rules[ri].incoming])
    /\ fired' = [fired EXCEPT ![ri] = @ + 1]
    /\ ri' = ri + 1
    /\ UNCHANGED <<ioVars, exc, opts, rules, pc, previous_states, ret,
                   steps, step_start, opVars, histVars>>

\* A variant of ApplyRule with "end = False" under "if opts.verbose".
ApplyRuleEndUnderVerbose ==
    /\ pc = "rule"
    /\ ri <= Len(rules)
    /\ Contains(state, rules[ri].outgoing)
    /\ state' = CounterSub(state, rules[ri].outgoing)
    /\ to_add' = CounterAdd(to_add, rules[ri].incoming)
    /\ end' = IF opts.verbose THEN FALSE ELSE end
    /\ stdout' = Emit(stdout, opts.verbose,
                       [kind |-> "rule", outgoing |-> rules[ri].outgoing,
                        incoming |-> rules[ri].incoming])
    /\ fired' = [fired EXCEPT ![ri] = @ + 1]
    /\ UNCHANGED <<ioVars, exc, opts, rules, ri, pc, previous_states, ret,
                   steps, step_start, opVars, histVars>>

\* A variant of ApplyRule with a to_add that is the incoming Counter of the
\* rule itself: "to_add += incoming" adds to the rule.
ApplyRuleIntoRule ==
    /\ pc = "rule"
    /\ ri <= Len(rules)
    /\ Contains(state, rules[ri].outgoing)
    /\ state' = CounterSub(state, rules[ri].outgoing)
    /\ to_add' = CounterAdd(to_add, rules[ri].incoming)
    /\ rules' = [rules EXCEPT ![ri].incoming = CounterAdd(@, @)]
    /\ end' = FALSE
    /\ stdout' = Emit(stdout, opts.verbose,
                       [kind |-> "rule", outgoing |-> rules[ri].outgoing,
                        incoming |-> rules[ri].incoming])
    /\ fired' = [fired EXCEPT ![ri] = @ + 1]
    /\ UNCHANGED <<ioVars, exc, opts, ri, pc, previous_states, ret,
                   steps, step_start, opVars, histVars>>

\* A variant of ApplyRule that gives the produced symbols to the cell at
\* once.
ApplyRuleFeedsCell ==
    /\ pc = "rule"
    /\ ri <= Len(rules)
    /\ Contains(state, rules[ri].outgoing)
    /\ state' = CounterAdd(CounterSub(state, rules[ri].outgoing),
                           rules[ri].incoming)
    /\ end' = FALSE
    /\ stdout' = Emit(stdout, opts.verbose,
                       [kind |-> "rule", outgoing |-> rules[ri].outgoing,
                        incoming |-> rules[ri].incoming])
    /\ fired' = [fired EXCEPT ![ri] = @ + 1]
    /\ UNCHANGED <<ioVars, exc, opts, rules, to_add, ri, pc, previous_states,
                   ret, steps, step_start, opVars, histVars>>

\* lines 47-54: one application of the rule the for loop is at
ApplyRule ==
    /\ pc = "rule"
    /\ ri <= Len(rules)
    /\ Contains(state, rules[ri].outgoing)
    /\ state' = CounterSub(state, rules[ri].outgoing)
    /\ to_add' = CounterAdd(to_add, rules[ri].incoming)
    /\ end' = FALSE
    /\ stdout' = Emit(stdout, opts.verbose,
                       [kind |-> "rule", outgoing |-> rules[ri].outgoing,
                        incoming |-> rules[ri].incoming])
    /\ fired' = [fired EXCEPT ![ri] = @ + 1]
    /\ UNCHANGED <<ioVars, exc, opts, rules, ri, pc, previous_states, ret,
                   steps, step_start, opVars, histVars>>

\* A variant of NextRule that gives the cell the produced symbols as soon as
\* a rule is drained.
NextRuleMergesPending ==
    /\ pc = "rule"
    /\ ri <= Len(rules)
    /\ ~Contains(state, rules[ri].outgoing)
    /\ ri' = ri + 1
    /\ state' = CounterAdd(state, to_add)
    /\ to_add' = EmptyCounter
    /\ UNCHANGED <<ioVars, stdout, exc, opts, rules, end, pc,
                   previous_states, ret, steps, step_start, fired,
                   opVars, histVars>>

\* lines 49, 55-56: the rule does not apply (any more), on to the next rule
NextRule ==
    /\ pc = "rule"
    /\ ri <= Len(rules)
    /\ ~Contains(state, rules[ri].outgoing)
    /\ ri' = ri + 1
    /\ UNCHANGED <<ioVars, stdout, exc, opts, rules, state, to_add, end, pc,
                   previous_states, ret, steps, step_start, fired,
                   opVars, histVars>>

\* A variant of MergePending for states recorded without copy(): every
\* recorded state is the cell itself and changes with it.
MergePendingSharedCell ==
    /\ pc = "rule"
    /\ ri > Len(rules)
    /\ state' = CounterAdd(state, to_add)
    /\ previous_states' = [i \in DOMAIN previous_states |-> state']
    /\ pc' = "detect"
    /\ UNCHANGED <<ioVars, stdout, exc, opts, rules, to_add, end, ri,
                   ret, steps, step_start, fired, opVars, histVars>>

\* line 57: state += to_add, once the for loop is over
MergePending ==
    /\ pc = "rule"
    /\ ri > Len(rules)
    /\ state' = CounterAdd(state, to_add)
    /\ pc' = "detect"
    /\ UNCHANGED <<ioVars, stdout, exc, opts, rules, to_add, end, ri,
                   previous_states, ret, steps, step_start, fired,
                   opVars, histVars>>

\* A variant of Dominated that looks for the recorded states equal to the
\* cell only.
DominatedEqual == {i \in DOMAIN previous_states : state = previous_states[i]}

\* A variant of Dominated that looks for the recorded states the cell
\* contains and is larger than.
DominatedStrictly ==
    {i \in DOMAIN previous_states :
        Contains(state, previous_states[i]) /\ state # previous_states[i]}

\* The positions of the recorded states the cell contains.
Dominated ==
    {i \in DOMAIN previous_states : Contains(state, previous_states[i])}

\* A variant of FirstDominated: the last of them.
FirstDominatedLast == CHOOSE i \in Dominated : \A j \in Dominated : i >= j

\* The first of them, in the order of "for prev in previous_states".
FirstDominated == CHOOSE i \in Dominated : \A j \in Dominated : i <= j

\* line 58: loop detection is off
SkipDetect ==
    /\ pc = "detect"
    /\ ~opts.detect_loops
    /\ pc' = "end"
    /\ UNCHANGED <<ioVars, stdout, exc, opts, rules, state, to_add, end, ri,
                   previous_states, ret, steps, step_start, fired,
                   opVars, histVars>>

\* lines 58-62: the cell contains a recorded state
RaiseDivergence ==
    /\ pc = "detect"
    /\ opts.detect_loops
    /\ Dominated # {}
    /\ exc' = <<[kind |-> "divergence",
                 prev |-> previous_states[FirstDominated], state |-> state]>>
    /\ pc' = "raised"
    /\ UNCHANGED <<ioVars, stdout, opts, rules, state, to_add, end, ri,
                   previous_states, ret, steps, step_start, fired,
                   opVars, histVars>>

\* lines 58-60, 63: the cell contains no recorded state and is recorded
RecordState ==
    /\ pc = "detect"
    /\ opts.detect_loops
    /\ Dominated = {}
    /\ previous_states' = Append(previous_states, state)
    /\ pc' = "end"
    /\ UNCHANGED <<ioVars, stdout, exc, opts, rules, state, to_add, end, ri,
                   ret, steps, step_start, fired, opVars, histVars>>

\* A variant of Return that also ends the run when a step left the cell as
\* it found it.
ReturnWhenUnchanged ==
    /\ pc = "end"
    /\ end \/ state = step_start
    /\ ret' = <<state>>
    /\ pc' = "returned"
    /\ UNCHANGED <<ioVars, stdout, exc, opts, rules, state, to_add, end, ri,
                   previous_states, steps, step_start, fired, opVars, histVars>>

\* lines 64-65: no rule fired in the step
Return ==
    /\ pc = "end"
    /\ end
    /\ ret' = <<state>>
    /\ pc' = "returned"
    /\ UNCHANGED <<ioVars, stdout, exc, opts, rules, state, to_add, end, ri,
                   previous_states, steps, step_start, fired, opVars, histVars>>

\* line 64: a rule fired in the step, the loop goes on
Continue ==
    /\ pc = "end"
    /\ ~end
    /\ pc' = "loop"
    /\ UNCHANGED <<ioVars, stdout, exc, opts, rules, state, to_add, end, ri,
                   previous_states, ret, steps, step_start, fired,
                   opVars, histVars>>

\* The state run() is called in: the rules are those main accepts.
Init ==
    /\ input_rules = <<>>
    /\ input_state = <<>>
    /\ input_read = <<>>
    /\ mpc = "run"
    /\ exit_code = <<>>
    /\ stdout = <<>>
    /\ exc = <<>>
    /\ opts \in OptionSets
    /\ rules \in RuleLists
    /\ state \in Counters(InSyms, MaxInit)
    /\ to_add = EmptyCounter
    /\ end = TRUE
    /\ ri = 1
    /\ pc = "entry"
    /\ previous_states = <<>>
    /\ ret = <<>>
    /\ steps = 0
    /\ step_start = EmptyCounter
    /\ fired = <<>>
    /\ trace = <<>>
    /\ earlier = <<>>
    /\ opA = EmptyCounter
    /\ opB = EmptyCounter
    /\ opR = [op |-> "none"]

Next ==
    \/ RunEntry
    \/ BeginStep
    \/ ApplyRule
    \/ NextRule
    \/ MergePending
    \/ SkipDetect
    \/ RaiseDivergence
    \/ RecordState
    \/ Return
    \/ Continue

Spec == Init /\ [][Next]_vars

\* -------------------------------------------------------------------- main
\* The lines the rule files are made of: two rules (aa->b, b->a) with two
\* blanks between them and a character that is no symbol; a comment; a tab,
\* a word "#AB" without outgoing symbol, and a rule.
FileLines ==
    { <<"a", "a", "B", " ", " ", "b", "x", "A", "\n">>,
      <<"#", "a", "B", "\n">>,
      <<"\t", "#", "A", "B", " ", "a", "\n">> }

\* The ways to cut n lines into k files, files without lines included.
Cuts(n, k) ==
    {c \in [1..(k + 1) -> 0..n] :
        c[1] = 0 /\ c[k + 1] = n /\ \A f \in 1..k : c[f] <= c[f + 1]}

\* The lists of at most MaxFiles files with at most MaxLines lines in all.
Programs ==
    {<<>>} \cup
    UNION {UNION {{[f \in 1..k |-> SubSeq(ls, c[f] + 1, c[f + 1])] :
                        c \in Cuts(n, k)} : ls \in [1..n -> FileLines]} :
              n \in 0..MaxLines, k \in 1..MaxFiles}

\* The characters of the input stream: a symbol, an uppercase letter and a
\* character that is neither.
InputChars == {"a", "B", "x"}

InputTexts == UNION {[1..n -> InputChars] : n \in 0..MaxInput}

\* lines 69-76: rules = [...]
LoadProgram ==
    /\ mpc = "load"
    /\ rules' = LoadRules(input_rules)
    /\ mpc' = "check"
    /\ UNCHANGED <<input_rules, input_state, input_read, exit_code, stdout, exc,
                   opts, state, to_add, end, ri, pc, previous_states, ret,
                   steps, step_start, fired, opVars, histVars>>

\* lines 77-79: a rule without outgoing symbols
RejectRules ==
    /\ mpc = "check"
    /\ \E i \in DOMAIN rules : ~NonEmpty(rules[i].outgoing)
    /\ exc' = <<[kind |-> "invalid_rule"]>>
    /\ mpc' = "raised"
    /\ UNCHANGED <<input_rules, input_state, input_read, exit_code, stdout,
                   runVars, opVars, histVars>>

\* A variant of AcceptRules that is content with one rule that has an
\* outgoing symbol.
AcceptRulesAny ==
    /\ mpc = "check"
    /\ \E i \in DOMAIN rules : NonEmpty(rules[i].outgoing)
    /\ mpc' = "read"
    /\ UNCHANGED <<input_rules, input_state, input_read, exit_code, stdout, exc,
                   runVars, opVars, histVars>>

\* lines 77-78: every rule has an outgoing symbol
AcceptRules ==
    /\ mpc = "check"
    /\ \A i \in DOMAIN rules : NonEmpty(rules[i].outgoing)
    /\ mpc' = "read"
    /\ UNCHANGED <<input_rules, input_state, input_read, exit_code, stdout, exc,
                   runVars, opVars, histVars>>

\* lines 80-82: the cell is read from the input stream and run is called
ReadState ==
    /\ mpc = "read"
    /\ state' = InitialState(input_state)
    /\ input_state' = <<>>
    /\ input_read' = Append(input_read, input_state)
    /\ mpc' = "run"
    /\ pc' = "entry"
    /\ UNCHANGED <<input_rules, exit_code, stdout, exc, opts, rules, to_add,
                   end, ri, previous_states, ret, steps, step_start, fired,
                   opVars, histVars>>

\* line 82: print(run(...)), run having returned
PrintResult ==
    /\ mpc = "run"
    /\ pc = "returned"
    /\ stdout' = Append(stdout, [kind |-> "state", value |-> ret[1]])
    /\ mpc' = "returned"
    /\ UNCHANGED <<input_rules, input_state, input_read, exit_code, exc, runVars,
                   opVars, histVars>>

\* lines 94-96: main returned
ExitSuccess ==
    /\ mpc = "returned"
    /\ exit_code' = <<0>>
    /\ mpc' = "exited"
    /\ UNCHANGED <<input_rules, input_state, input_read, stdout, exc, runVars,
                   opVars, histVars>>

\* A variant of ExitFailure that ends the program with the status 0.
ExitFailureStatusZero ==
    /\ \/ mpc = "raised"
       \/ mpc = "run" /\ pc = "raised"
    /\ stdout' = Append(stdout, [kind |-> "error", error |-> exc[1]])
    /\ exit_code' = <<0>>
    /\ mpc' = "exited"
    /\ UNCHANGED <<input_rules, input_state, input_read, exc, runVars,
                   opVars, histVars>>

\* lines 97-99: main, or run called by main, raised
ExitFailure ==
    /\ \/ mpc = "raised"
       \/ mpc = "run" /\ pc = "raised"
    /\ stdout' = Append(stdout, [kind |-> "error", error |-> exc[1]])
    /\ exit_code' = <<1>>
    /\ mpc' = "exited"
    /\ UNCHANGED <<input_rules, input_state, input_read, exc, runVars,
                   opVars, histVars>>

\* The state the program starts in.
InitMain ==
    /\ input_rules \in Programs
    /\ input_state \in InputTexts
    /\ input_read = <<>>
    /\ mpc = "load"
    /\ exit_code = <<>>
    /\ stdout = <<>>
    /\ exc = <<>>
    /\ opts \in OptionSets
    /\ rules = <<>>
    /\ state = EmptyCounter
    /\ to_add = EmptyCounter
    /\ end = TRUE
    /\ ri = 1
    /\ pc = "idle"
    /\ previous_states = <<>>
    /\ ret = <<>>
    /\ steps = 0
    /\ step_start = EmptyCounter
    /\ fired = <<>>
    /\ trace = <<>>
    /\ earlier = <<>>
    /\ opA = EmptyCounter
    /\ opB = EmptyCounter
    /\ opR = [op |-> "none"]

NextMain ==
    \/ LoadProgram
    \/ RejectRules
    \/ AcceptRules
    \/ ReadState
    \/ RunEntry
    \/ BeginStep
    \/ ApplyRule
    \/ NextRule
    \/ MergePending
    \/ SkipDetect
    \/ RaiseDivergence
    \/ RecordState
    \/ Return
    \/ Continue
    \/ PrintResult
    \/ ExitSuccess
    \/ ExitFailure

SpecMain == InitMain /\ [][NextMain]_vars

\* ------------------------------------------------------- run, called twice
\* The run is over, or the model follows it no further.
RunOver ==
    \/ pc \in {"returned", "raised"}
    \/ pc = "loop" /\ steps = MaxSteps

\* lines 39, 82: run is called again with the same rules and options and a
\* cell equal to the one the first call was given; how the first call went
\* is kept.  The locals of the first call are what they were left as: the
\* second call sets them before it reads them.
RunAgain ==
    /\ RunOver
    /\ earlier = <<>>
    /\ earlier' = <<[trace |-> trace, steps |-> steps, pc |-> pc, ret |-> ret,
                     exc |-> exc, stdout |-> stdout]>>
    /\ state' = trace[1]
    /\ pc' = "entry"
    /\ ret' = <<>>
    /\ exc' = <<>>
    /\ stdout' = <<>>
    /\ steps' = 0
    /\ trace' = <<>>
    /\ UNCHANGED <<ioVars, opts, rules, to_add, end, ri, previous_states,
                   step_start, fired, opVars>>

NextTwice ==
    \/ RunEntry
    \/ BeginStep
    \/ ApplyRule
    \/ NextRule
    \/ MergePending
    \/ SkipDetect
    \/ RaiseDivergence
    \/ RecordState
    \/ Return
    \/ Continue
    \/ RunAgain

SpecTwice == Init /\ [][NextTwice]_vars

\* ------------------------------- run, called with and without opts.verbose
\* lines 39, 43, 53: run is called again with the same rules, the same
\* opts.detect_loops and a cell equal to the one the first call was given,
\* and with the other value of opts.verbose; how the first call went is kept.
RunAgainOtherVerbose ==
    /\ RunOver
    /\ earlier = <<>>
    /\ earlier' = <<[trace |-> trace, steps |-> steps, pc |-> pc, ret |-> ret,
                     exc |-> exc, stdout |-> stdout, verbose |-> opts.verbose]>>
    /\ opts' = [opts EXCEPT !.verbose = ~opts.verbose]
    /\ state' = trace[1]
    /\ pc' = "entry"
    /\ ret' = <<>>
    /\ exc' = <<>>
    /\ stdout' = <<>>
    /\ steps' = 0
    /\ trace' = <<>>
    /\ UNCHANGED <<ioVars, rules, to_add, end, ri, previous_states,
                   step_start, fired, opVars>>

NextVerbose ==
    \/ RunEntry
    \/ BeginStep
    \/ ApplyRule
    \/ NextRule
    \/ MergePending
    \/ SkipDetect
    \/ RaiseDivergence
    \/ RecordState
    \/ Return
    \/ Continue
    \/ RunAgainOtherVerbose

SpecVerbose == Init /\ [][NextVerbose]_vars

\* ------------------------------------------ run with loop detection, whole
\* lines 42-46: the start of one iteration of "while True" after the first
\* MaxSteps steps of a run with loop detection, which is followed on.
BeginStepDetecting ==
    /\ pc = "loop"
    /\ opts.detect_loops
    /\ steps >= MaxSteps
    /\ steps < MaxLoopSteps
    /\ stdout' = Emit(stdout, opts.verbose, [kind |-> "state", value |-> state])
    /\ to_add' = EmptyCounter
    /\ end' = TRUE
    /\ ri' = 1
    /\ pc' = "rule"
    /\ steps' = steps + 1
    /\ step_start' = state
    /\ fired' = [i \in DOMAIN rules |-> 0]
    /\ trace' = Append(trace, state)
    /\ UNCHANGED <<ioVars, exc, opts, rules, state, previous_states, ret,
                   opVars, earlier>>

NextLoops ==
    \/ RunEntry
    \/ BeginStep
    \/ BeginStepDetecting
    \/ ApplyRule
    \/ NextRule
    \/ MergePending
    \/ SkipDetect
    \/ RaiseDivergence
    \/ RecordState
    \/ Return
    \/ Continue

\* run executes its next statement as long as it has one.
SpecLoops == Init /\ [][NextLoops]_vars /\ WF_vars(NextLoops)

\* ------------------------------------------------- the Counter operators
\* The Counters the operators of run are applied to.
Operands == Counters(Sym, MaxOperand)

\* line 49, line 60: a - b + b == a
TestContains ==
    /\ opR' = [op |-> "contains", value |-> Contains(opA, opB)]
    /\ UNCHANGED <<ioVars, stdout, exc, runVars, opA, opB, histVars>>

\* lines 49-50, then + b: the cell after state -= b, with b added back
SubtractThenAdd ==
    /\ Contains(opA, opB)
    /\ opR' = [op |-> "subtract_add",
               value |-> CounterAdd(CounterSub(opA, opB), opB)]
    /\ UNCHANGED <<ioVars, stdout, exc, runVars, opA, opB, histVars>>

\* lines 45, 57: state += to_add, nothing having been produced
AddEmpty ==
    /\ opR' = [op |-> "add_empty", value |-> CounterAdd(opA, EmptyCounter)]
    /\ UNCHANGED <<ioVars, stdout, exc, runVars, opA, opB, histVars>>

\* line 49, for a rule without outgoing symbols
ContainsEmpty ==
    /\ opR' = [op |-> "contains_empty", value |-> Contains(opA, EmptyCounter)]
    /\ UNCHANGED <<ioVars, stdout, exc, runVars, opA, opB, histVars>>

InitOps ==
    /\ input_rules = <<>>
    /\ input_state = <<>>
    /\ input_read = <<>>
    /\ mpc = "idle"
    /\ exit_code = <<>>
    /\ stdout = <<>>
    /\ exc = <<>>
    /\ opts = [detect_loops |-> FALSE, verbose |-> FALSE]
    /\ rules = <<>>
    /\ state = EmptyCounter
    /\ to_add = EmptyCounter
    /\ end = TRUE
    /\ ri = 1
    /\ pc = "idle"
    /\ previous_states = <<>>
    /\ ret = <<>>
    /\ steps = 0
    /\ step_start = EmptyCounter
    /\ fired = <<>>
    /\ trace = <<>>
    /\ earlier = <<>>
    /\ opA \in Operands
    /\ opB \in Operands
    /\ opR = [op |-> "none"]

NextOps ==
    \/ TestContains
    \/ SubtractThenAdd
    \/ AddEmpty
    \/ ContainsEmpty

SpecOps == InitOps /\ [][NextOps]_vars

\* ------------------------------------------------------------ properties
\* b is contained in a: a has at least b's count of every symbol.
Leq(b, a) == \A s \in Sym : b[s] <= a[s]

\* k copies of m.
Times(k, m) == [s \in Sym |-> k * m[s]]

\* The largest k such that k copies of out are contained in S (out has a
\* symbol, so no more than Size(S) copies are).
MaxCopies(S, out) ==
    CHOOSE k \in 0..Size(S) :
        Leq(Times(k, out), S) /\ ~Leq(Times(k + 1, out), S)

\* A step that starts from S, rule by rule: S_(i-1) is what rules 1..i-1
\* left, k the numbers of copies they took and P what they produced; rule i
\* takes as many copies of its outgoing symbols as S_(i-1) contains.
RECURSIVE Greedy(_, _, _, _)
Greedy(S, i, k, P) ==
    IF i > Len(rules) THEN [left |-> S, copies |-> k, produced |-> P]
    ELSE LET n == MaxCopies(S, rules[i].outgoing)
         IN  Greedy([s \in Sym |-> S[s] - n * rules[i].outgoing[s]], i + 1,
                    Append(k, n),
                    [s \in Sym |-> P[s] + n * rules[i].incoming[s]])

\* A step of run is over: the produced symbols were merged into the cell.
StepOver ==
    \/ pc \in {"detect", "end", "raised", "returned"}
    \/ pc = "loop" /\ steps > 0

\* C1: a step that starts from S applies rule i, in list order, k_i times,
\* k_i the largest number of copies of out_i contained in S_(i-1), with
\* S_0 = S and S_i = S_(i-1) - k_i*out_i; the cell after the step is
\* S_n + sum of k_i*in_i.
C1_StepIsGreedyInOrder ==
    StepOver =>
        \E g \in {Greedy(step_start, 1, <<>>, EmptyCounter)} :
            /\ fired = g.copies
            /\ \A s \in Sym : state[s] = g.left[s] + g.produced[s]

\* C1 witness: a step is over in which the first rule was applied twice or
\* more and took the symbols the second rule needed at the start of the step.
C1_Witness ==
    /\ pc = "detect"
    /\ Len(rules) = 2
    /\ fired[1] >= 2
    /\ fired[2] = 0
    /\ Leq(rules[2].outgoing, step_start)
    /\ NonEmpty(rules[1].incoming)

\* No rule applies to S.
NoRuleApplies(S) == \A i \in DOMAIN rules : ~Leq(rules[i].outgoing, S)

\* What C2 says of a state of a run without loop detection.
C2_AtState ==
    ~opts.detect_loops =>
        /\ pc \in {"detect", "end"} => (end <=> NoRuleApplies(step_start))
        /\ pc = "returned" =>
               /\ NoRuleApplies(step_start)
               /\ ret = <<step_start>>
               /\ state = step_start
        /\ pc = "loop" /\ steps > 0 => ~NoRuleApplies(step_start)

\* C2: without loop detection, a step ends the run exactly when no rule
\* applied to the cell the step started from; run then returns the cell the
\* step started from, and it goes on after any step in which a rule fired,
\* whatever the cell after the step is.
C2_ReturnsAtFirstUnfiredStep ==
    [][/\ C2_AtState'
       /\ ~opts.detect_loops /\ pc = "end" =>
              /\ pc' = "returned" <=> NoRuleApplies(step_start)
              /\ pc' = "loop" <=> ~NoRuleApplies(step_start)
       /\ pc = "returned" => pc' = "returned" /\ steps' = steps]_vars

\* C2 witness: a run without loop detection returned at its third step or
\* later, with a cell other than the one its first step left.
C2_Witness ==
    /\ ~opts.detect_loops
    /\ pc = "returned"
    /\ steps >= 3
    /\ Len(rules) = 2

\* C3: with loop detection, a step in which no rule fires ends the run with
\* the cell as its result: the divergence error is not raised on that step.
C3_UnfiredStepReturns ==
    opts.detect_loops /\ end /\ pc \in {"end", "raised", "returned"} =>
        pc # "raised"

\* The first recorded state contained in the cell, if there is one.
FirstRecordedIn(history, cell) ==
    {i \in DOMAIN history :
        /\ Leq(history[i], cell)
        /\ \A j \in 1..(i - 1) : ~Leq(history[j], cell)}

\* The rule a->aa and the cells a and aa.
RuleGrow == RuleOf(<<"a", "A", "A">>)

CellA == CounterOf(<<"a">>)

CellAA == CounterOf(<<"a", "a">>)

\* The example of C4: the rule a->aa, the cell a.
C4_Example ==
    /\ opts.detect_loops
    /\ steps >= 1
    /\ StepOver
    /\ rules = <<RuleGrow>>
    /\ previous_states[1] = CellA
    => /\ pc = "detect" \/ pc = "raised"
       /\ steps = 1
       /\ pc = "raised" =>
              exc = <<[kind |-> "divergence", prev |-> CellA,
                       state |-> CellAA]>>

\* C4: with loop detection, at the end of a step that leaves the cell state',
\* the divergence error is raised exactly when state' contains a recorded
\* state, with the first such state and state'; no step runs after it;
\* otherwise state' is recorded and the run goes on.  With the rule a->aa
\* and the cell a the error is raised after the first step, with (a, aa).
C4_DivergenceRaisedIffDominates ==
    [][/\ opts.detect_loops /\ pc = "detect" =>
              IF \E i \in DOMAIN previous_states :
                     Leq(previous_states[i], state)
              THEN /\ pc' = "raised"
                   /\ \E i \in FirstRecordedIn(previous_states, state) :
                          exc' = <<[kind |-> "divergence",
                                    prev |-> previous_states[i],
                                    state |-> state]>>
                   /\ previous_states' = previous_states
              ELSE /\ pc' = "end"
                   /\ ~end
                   /\ exc' = <<>>
                   /\ previous_states' = Append(previous_states, state)
       /\ pc = "raised" => pc' = "raised" /\ steps' = steps /\ state' = state
       /\ C4_Example']_vars

\* C4 witness: the divergence error was raised with the first of two
\* different recorded states that the cell contains.
C4_Witness ==
    /\ pc = "raised"
    /\ \E i, j \in Dominated : i < j /\ previous_states[i] # previous_states[j]
    /\ exc[1].prev = previous_states[FirstDominated]

\* The words of a line, as places: a word starts at p when line[p] is no
\* whitespace and p is the first place or follows a whitespace, and ends at
\* the last place before the next whitespace.
WordStarts(line) ==
    {p \in DOMAIN line :
        line[p] \notin Whitespace /\ (p = 1 \/ line[p - 1] \in Whitespace)}

WordEnd(line, p) ==
    CHOOSE q \in p..Len(line) :
        /\ \A i \in p..q : line[i] \notin Whitespace
        /\ q = Len(line) \/ line[q + 1] \in Whitespace

\* The words of the rule files: <<f, l, p, q>> is the word at the places
\* p..q of line l of file f, the lines that start with '#' left out.
WordsOf(files) ==
    UNION {UNION {{<<f, l, p, WordEnd(files[f][l], p)>> :
                        p \in IF files[f][l] # <<>> /\ files[f][l][1] = "#"
                              THEN {}
                              ELSE WordStarts(files[f][l])} :
                     l \in DOMAIN files[f]} : f \in DOMAIN files}

\* File order, then line order, then the order of the words in the line.
Precedes(v, w) ==
    \/ v[1] < w[1]
    \/ v[1] = w[1] /\ v[2] < w[2]
    \/ v[1] = w[1] /\ v[2] = w[2] /\ v[3] < w[3]

\* The number of places of word w of the files that hold the character c.
CountInWord(files, w, c) ==
    Cardinality({i \in w[3]..w[4] : files[w[1]][w[2]][i] = c})

\* The uppercase form of a symbol.
UpperOf(s) == SYMBOLS_upper[CHOOSE i \in DOMAIN SYMBOLS : SYMBOLS[i] = s]

\* The invalid-rule error.
InvalidRule == <<[kind |-> "invalid_rule"]>>

\* C5: when a word of the rule files has no a-e character, main raises the
\* invalid-rule error, and it does so with the input stream unread and no
\* step of run executed, whatever the input and the other rules are.
C5_InvalidRuleBeforeInputAndRun ==
    (\E w \in WordsOf(input_rules) :
        \A s \in Sym : CountInWord(input_rules, w, s) = 0)
    => /\ mpc = "check" => \E i \in DOMAIN rules : Size(rules[i].outgoing) = 0
       /\ mpc \notin {"load", "check"} =>
              /\ mpc \in {"raised", "exited"}
              /\ exc = InvalidRule
              /\ input_read = <<>>
              /\ steps = 0
              /\ pc = "idle"
              /\ mpc = "exited" => exit_code = <<1>>

\* C5 witness: the program ended with the invalid-rule error, a rule with
\* outgoing symbols loaded next to the invalid one and the input, which is
\* not empty, unread.
C5_Witness ==
    /\ mpc = "exited"
    /\ exc = InvalidRule
    /\ input_state # <<>>
    /\ input_read = <<>>
    /\ Len(rules) >= 2
    /\ NonEmpty(rules[1].outgoing)

\* The cell main hands to run was just read from the input stream.
CellJustRead == mpc = "run" /\ pc = "entry" /\ earlier = <<>>

\* The number of places of the text that hold the character c.
CountInText(text, c) == Cardinality({i \in DOMAIN text : text[i] = c})

\* C6, as claimed: the cell read from the input stream counts, for every
\* symbol, its lowercase and its uppercase occurrences in the input.
C6_InputCaseFolded ==
    CellJustRead =>
        \A s \in Sym :
            state[s] = CountInText(input_read[1], s)
                       + CountInText(input_read[1], UpperOf(s))

\* C6, amended: the cell read from the input stream counts, for every symbol,
\* its lowercase occurrences in the input; an uppercase A-E, like every other
\* character, contributes nothing.
C6_InputLowercaseOnly ==
    CellJustRead =>
        \A s \in Sym : state[s] = CountInText(input_read[1], s)

\* C6 witness: a cell was read from an input with a lowercase symbol and an
\* uppercase letter of another symbol.
C6_Witness ==
    /\ CellJustRead
    /\ \E s \in Sym : CountInText(input_read[1], s) > 0
    /\ \E s \in Sym : CountInText(input_read[1], UpperOf(s)) > 0 /\ state[s] = 0

C8_CountsNeverNegative ==
    [][/\ \A s \in Sym :
              /\ state'[s] >= 0
              /\ to_add'[s] >= 0
              /\ \A i \in DOMAIN previous_states' : previous_states'[i][s] >= 0
       /\ pc = "rule" /\ pc' = "rule" /\ fired' # fired =>
              /\ Leq(rules[ri].outgoing, state)
              /\ \A s \in Sym :
                     state'[s] = state[s] - rules[ri].outgoing[s]]_vars

\* C8 witness: a rule was applied twice or more in a step and took the last
\* of a symbol from the cell.
C8_Witness ==
    /\ pc = "rule"
    /\ ri <= Len(rules)
    /\ fired[ri] >= 2
    /\ \E s \in Sym : rules[ri].outgoing[s] > 0 /\ state[s] = 0

\* C9: a - b + b == a is true exactly when a has at least b's count of every
\* symbol; when it is, adding b to what subtracting b left gives a; adding
\* the empty Counter changes nothing, and every Counter contains it.
C9_CounterOperators ==
    /\ opR.op = "contains" => (opR.value <=> Leq(opB, opA))
    /\ opR.op = "subtract_add" => opR.value = opA
    /\ opR.op = "add_empty" => opR.value = opA
    /\ opR.op = "contains_empty" => opR.value = TRUE

\* C9 witness: the test was made, and failed, for two Counters each of which
\* has more of some symbol than the other.
C9_Witness ==
    /\ opR.op = "contains"
    /\ ~opR.value
    /\ \E s \in Sym : opA[s] > opB[s]
    /\ \E s \in Sym : opA[s] < opB[s]

\* C10: the rule list has one rule for every word of the lines that do not
\* start with '#', in file order, then line order, then word order; the
\* outgoing Counter of a rule counts the lowercase occurrences of each
\* symbol in its word, the incoming Counter the uppercase ones.
C10_RulesAreTheWordsInOrder ==
    mpc # "load" =>
        \E W \in {WordsOf(input_rules)} :
            /\ Len(rules) = Cardinality(W)
            /\ \A w \in W :
                   \E k \in {Cardinality({v \in W : Precedes(v, w)}) + 1} :
                       \A s \in Sym :
                           /\ rules[k].outgoing[s]
                                  = CountInWord(input_rules, w, s)
                           /\ rules[k].incoming[s]
                                  = CountInWord(input_rules, w, UpperOf(s))

\* C10 witness: the rules were loaded from two files of one line each, two
\* words in each line: aa->b and b->a from the first file, then the word
\* "#AB" (no outgoing symbol, a and b incoming) and a->nothing from the second.
C10_Witness ==
    /\ mpc = "check"
    /\ Len(input_rules) = 2
    /\ Len(input_rules[1]) = 1
    /\ Len(input_rules[2]) = 1
    /\ Len(rules) = 4
    /\ rules[1].outgoing = CellAA
    /\ rules[2].incoming = CellA
    /\ ~NonEmpty(rules[3].outgoing) /\ NonEmpty(rules[3].incoming)
    /\ rules[4].outgoing = CellA

\* The rule lines printed in out, in order.
RuleLinesOf(out) == SelectSeq(out, LAMBDA x : x.kind = "rule")

\* C11: a run with opts.verbose on and a run with it off, with the same
\* rules, the same cell and the same opts.detect_loops, start their steps
\* from the same cells, one after the other, and end alike: after as many
\* steps, with the same value returned or the same error raised.
C11_VerboseDoesNotInfluenceRun ==
    earlier # <<>> =>
        /\ opts.verbose # earlier[1].verbose
        /\ steps <= earlier[1].steps
        /\ trace = SubSeq(earlier[1].trace, 1, Len(trace))
        /\ RunOver =>
               /\ pc = earlier[1].pc
               /\ steps = earlier[1].steps
               /\ trace = earlier[1].trace
               /\ ret = earlier[1].ret
               /\ exc = earlier[1].exc

\* C11 witness: a silent run returned after two steps or more, after the
\* verbose run that printed cells and applied rules did.
C11_Witness ==
    /\ earlier # <<>>
    /\ ~opts.verbose
    /\ pc = "returned"
    /\ steps >= 2
    /\ stdout = <<>>
    /\ Len(RuleLinesOf(earlier[1].stdout)) >= 2

\* The symbols the first n rules took from the cell in the current step.
RECURSIVE TakenInStep(_)
TakenInStep(n) ==
    IF n = 0 THEN EmptyCounter
    ELSE CounterAdd(TakenInStep(n - 1), Times(fired[n], rules[n].outgoing))

\* The symbols the first n rules produced in the current step.
RECURSIVE MadeInStep(_)
MadeInStep(n) ==
    IF n = 0 THEN EmptyCounter
    ELSE CounterAdd(MadeInStep(n - 1), Times(fired[n], rules[n].incoming))

\* C12: in a step the rules take their outgoing symbols from what the cell
\* held when the step started, never from what the step produced: all that
\* was taken so far fits in the cell the step started with, the cell is that
\* cell less what was taken while a rule may still be applied, the produced
\* symbols wait in to_add, and they are in the cell only once no rule
\* applies any more to what is left of the cell the step started with.
C12_ProducedSymbolsWaitForNextStep ==
    steps >= 1 =>
        \E taken \in {TakenInStep(Len(rules))},
           made \in {MadeInStep(Len(rules))} :
            /\ Leq(taken, step_start)
            /\ to_add = made
            /\ pc = "rule" =>
                   /\ state = CounterSub(step_start, taken)
                   /\ \A i \in 1..(ri - 1) :
                          ~Contains(state, rules[i].outgoing)
            /\ pc # "rule" =>
                   /\ state = CounterAdd(CounterSub(step_start, taken), made)
                   /\ NoRuleApplies(CounterSub(step_start, taken))

\* C12 witness: in a second step a rule took a symbol the first cell had
\* none of, and the next rule does not apply to the cell although it would
\* apply to the cell with the symbols produced in this step.
C12_Witness ==
    /\ pc = "rule"
    /\ steps = 2
    /\ ri = 2
    /\ ri <= Len(rules)
    /\ fired[1] >= 1
    /\ \E s \in Sym : rules[1].outgoing[s] > 0 /\ trace[1][s] = 0
    /\ ~Contains(state, rules[ri].outgoing)
    /\ Contains(CounterAdd(state, to_add), rules[ri].outgoing)

\* What C13 says of a state of a run with loop detection: before the first
\* step the recorded states are the first cell alone; during a step they are
\* the cells the steps so far started from, in order; between two steps
\* they are these and the cell the next step starts from.
HistoryIsTheStepStarts ==
    /\ pc = "loop" /\ steps = 0 => previous_states = <<state>>
    /\ pc \in {"rule", "detect", "raised"} => previous_states = trace
    /\ pc \in {"end", "loop"} /\ steps >= 1 =>
           previous_states = Append(trace, state)

\* C13: with loop detection the recorded states are the cells the steps
\* started from, the first cell first, and a recorded state is never changed
\* nor removed by a later step of the run, whatever becomes of the cell.
C13_HistoryIsTheStepStarts ==
    [][opts.detect_loops =>
           /\ pc # "entry" =>
                  /\ Len(previous_states') >= Len(previous_states)
                  /\ \A i \in DOMAIN previous_states :
                         previous_states'[i] = previous_states[i]
           /\ HistoryIsTheStepStarts']_vars

\* C13 witness: in the third step of a run with loop detection three
\* different states are recorded and a rule has changed the cell since the
\* last of them was.
C13_Witness ==
    /\ opts.detect_loops
    /\ pc = "rule"
    /\ steps = 3
    /\ previous_states = trace
    /\ Len(previous_states) = 3
    /\ previous_states[1] # previous_states[2]
    /\ previous_states[2] # previous_states[3]
    /\ state # previous_states[3]

\* C14: no step of run changes the rule list: the rules, their outgoing and
\* incoming symbols and their order stay what they were when run was
\* called; applying a rule changes the cell and to_add only.
C14_RulesNeverChange ==
    [][/\ rules' = rules
       /\ fired' # fired /\ pc = "rule" =>
              /\ state' # state
              /\ <<end', ri', pc', previous_states', ret', steps'>>
                     = <<FALSE, ri, pc, previous_states, ret, steps>>]_vars

\* C14 witness: the second step of a run is at its end, both rules of the
\* list were applied in it and they produced symbols.
C14_Witness ==
    /\ pc = "rule"
    /\ steps = 2
    /\ Len(rules) = 2
    /\ ri > Len(rules)
    /\ fired[1] >= 1
    /\ fired[2] >= 1
    /\ Size(to_add) >= 2

\* The cells printed in out, in order.
StateLinesOf(out) == SelectSeq(out, LAMBDA x : x.kind = "state")

\* The errors printed in out, in order.
ErrorLinesOf(out) == SelectSeq(out, LAMBDA x : x.kind = "error")

\* The number of cells run has printed: one a step when opts.verbose is on.
VerboseStates == IF opts.verbose THEN steps ELSE 0

\* C15: the program ends with the status 0 exactly when run returned, and
\* then the last thing printed is the cell run returned and no error is
\* printed; when main raised the invalid-rule error or run the divergence
\* error, the program ends with the status 1, the last thing printed is
\* that error and no cell is printed but those opts.verbose asks for.
C15_ExitStatusAndOutput ==
    /\ mpc # "exited" => exit_code = <<>> /\ ErrorLinesOf(stdout) = <<>>
    /\ mpc = "exited" /\ pc = "returned" =>
           /\ exit_code = <<0>>
           /\ exc = <<>>
           /\ ret = <<state>>
           /\ stdout # <<>>
           /\ stdout[Len(stdout)] = [kind |-> "state", value |-> ret[1]]
           /\ Len(StateLinesOf(stdout)) = VerboseStates + 1
           /\ ErrorLinesOf(stdout) = <<>>
    /\ mpc = "exited" /\ pc # "returned" =>
           /\ exit_code = <<1>>
           /\ ret = <<>>
           /\ \/ exc = InvalidRule /\ pc = "idle"
              \/ exc # <<>> /\ exc[1].kind = "divergence" /\ pc = "raised"
           /\ stdout # <<>>
           /\ stdout[Len(stdout)] = [kind |-> "error", error |-> exc[1]]
           /\ Len(ErrorLinesOf(stdout)) = 1
           /\ Len(StateLinesOf(stdout)) = VerboseStates

\* C15 witness: the program ended after run raised the divergence error in
\* its second step or later, with opts.verbose on: the cells of the steps
\* were printed, then the error.
C15_Witness ==
    /\ mpc = "exited"
    /\ pc = "raised"
    /\ opts.verbose
    /\ steps >= 2
    /\ exit_code = <<1>>
    /\ Len(stdout) > steps + 1

\* The number of rule applications of the current step by the first n rules.
RECURSIVE Applications(_)
Applications(n) == IF n = 0 THEN 0 ELSE Applications(n - 1) + fired[n]

\* C16: with no rule without outgoing symbols, the rule applications of a
\* step are at most as many as the symbols the cell held when the step
\* started: the cell holds at least one symbol less after each of them.
C16_StepApplicationsBounded ==
    (\A i \in DOMAIN rules : NonEmpty(rules[i].outgoing)) /\ steps >= 1 =>
        \E n \in {Applications(Len(rules))} :
            /\ n <= Size(step_start)
            /\ pc = "rule" => Size(state) + n <= Size(step_start)

\* C16 witness: a step that started from a cell of three symbols or more is
\* at its end after as many rule applications as the cell held symbols.
C16_Witness ==
    /\ pc = "rule"
    /\ ri > Len(rules)
    /\ Size(step_start) >= 3
    /\ Applications(Len(rules)) = Size(step_start)
    /\ Size(to_add) > Size(step_start)

\* C17: with loop detection no recorded state contains a state recorded
\* before it; in particular no two recorded states are equal.
C17_HistoryNonDominating ==
    opts.detect_loops =>
        \A j \in DOMAIN previous_states : \A i \in 1..(j - 1) :
            /\ ~Contains(previous_states[j], previous_states[i])
            /\ previous_states[j] # previous_states[i]

\* C17 witness: three states or more are recorded, and one of them holds as
\* many symbols as one recorded before it, or more.
C17_Witness ==
    /\ opts.detect_loops
    /\ pc = "end"
    /\ Len(previous_states) >= 3
    /\ \E j \in DOMAIN previous_states : \E i \in 1..(j - 1) :
           Size(previous_states[j]) >= Size(previous_states[i])

\* C18: a run with loop detection, of rules that all have outgoing symbols,
\* ends: sooner or later it returns or raises the divergence error.
C18_RunWithLoopDetectionEnds ==
    opts.detect_loops /\ (\A i \in DOMAIN rules : NonEmpty(rules[i].outgoing))
        => <>(pc \in {"returned", "raised"})

\* C18 witness: a run with loop detection ended in its sixth step or later,
\* with five states or more recorded.
C18_Witness ==
    /\ opts.detect_loops
    /\ pc = "raised"
    /\ steps >= 6
    /\ Len(previous_states) >= 5

====
